---- MODULE Spec2Model ----
(***************************************************************************)
(* A model of font8x8 (src/src/main.c): the bump arena, the UTF-8 decoder  *)
(* and validator, and the glyph extraction pass of main.                   *)
(*                                                                         *)
(* Addresses are natural numbers, NULL is 0.  A byte is a number in        *)
(* 0..255.  A StringView is [data, size] where data is an offset into the  *)
(* byte buffer the view points into (offset 0 is the buffer's first byte). *)
(***************************************************************************)
EXTENDS Integers, Sequences, FiniteSets, TLC

VARIABLES
    \* ---- arena (Arena, main.c:60-63) and what its callers hold
    arena,          \* [begin, end]
    mem,            \* the arena's bytes: address -> byte
    blocks,         \* every block [ptr, size] a call has returned so far
    latest,         \* the block the most recent allocation returned, or NoBlock
    last,           \* what the last arena call was given and what it did
    acct,           \* running totals of the allocate calls made so far
    \* ---- UTF-8 (StringView, main.c:103-106)
    text,           \* the byte buffer the view points into (in main: the bytes
                    \* read from the legend file)
    string,         \* the StringView cursor [data, size]
    char_code,      \* *char_code as last written by utf8_chop_char
    chopped,        \* the StringView utf8_chop_char returned last
    valid,          \* what utf8_validate returned for the initial span:
                    \* "true" or "false", "unset" before the call
    ub,             \* TRUE once a read left its buffer or UNREACHABLE() was hit
    sample,         \* the code point encoded at the cursor and the cursor it was given
    \* ---- main (main.c:296-425)
    pc,             \* where main is
    font_chars,     \* String: the legend file's bytes, [data, size, capacity]
    font,           \* [width, height, bytes_per_color, cells]
    font_char_count,
    glyphs,         \* [base, iter, end]: glyphs, glyph_iter, glyphs_end
    font_char_iter, \* the extraction pass's legend cursor
    table,          \* the Glyph records written so far
    scan,           \* [font_grid_x, font_grid_y, examined]: the grid loops'
                    \* position and the number of cells examined so far
    out             \* [exit_code, error, printed, dump]: -1 while main runs

arenaVars == <<arena, mem, blocks, latest, last, acct>>
utf8Vars == <<text, string, char_code, chopped, valid, ub, sample>>
mainVars == <<pc, font_chars, font, font_char_count, glyphs, font_char_iter, table, scan, out>>
vars == <<arenaVars, utf8Vars, mainVars>>

NULL == 0

Min(a, b) == IF a < b THEN a ELSE b

Max(a, b) == IF a < b THEN b ELSE a

(***************************************************************************)
(* C's bit operators on unsigned values, bit by bit.                       *)
(***************************************************************************)
RECURSIVE BitAnd(_, _)
BitAnd(a, b) ==
    IF a = 0 \/ b = 0 THEN 0
    ELSE (IF a % 2 = 1 /\ b % 2 = 1 THEN 1 ELSE 0) + 2 * BitAnd(a \div 2, b \div 2)

RECURSIVE BitOr(_, _)
BitOr(a, b) ==
    IF a = 0 THEN b
    ELSE IF b = 0 THEN a
    ELSE (IF a % 2 = 1 \/ b % 2 = 1 THEN 1 ELSE 0) + 2 * BitOr(a \div 2, b \div 2)

\* (u32)x << n.  Every operand the decoder shifts is masked to at most five bits
\* and shifted by at most 18, so the result stays below 2^23 and the u32 never
\* wraps.
Shl32(x, n) == x * (2 ^ n)

(***************************************************************************)
(* UTF-8                                                                   *)
(***************************************************************************)
Byte == 0 .. 255

\* The table with 0xE0 put in the row of the 2-byte leaders.
utf8_char_size_shifted(b) ==
    IF b < \H80 THEN 1
    ELSE IF b < \HC2 THEN 0
    ELSE IF b < \HE1 THEN 2
    ELSE IF b < \HF0 THEN 3
    ELSE IF b < \HF5 THEN 4
    ELSE 0

\* static u8 utf8_char_size[256]: the row of the table a byte falls in.
utf8_char_size(b) ==
    IF b < \H80 THEN 1
    ELSE IF b < \HC2 THEN 0
    ELSE IF b < \HE0 THEN 2
    ELSE IF b < \HF0 THEN 3
    ELSE IF b < \HF5 THEN 4
    ELSE 0

\* string->data[i].  Inside the span it is the buffer's byte; outside the span
\* the read is out of bounds and yields whatever lies there (junk).
DataAt(buf, view, i, junk) ==
    IF i >= 0 /\ i < view.size /\ view.data + i + 1 \in 1 .. Len(buf)
    THEN buf[view.data + i + 1]
    ELSE junk

\* utf8_chop_char(&string, &char_code): the code point, the slice returned, the
\* advanced cursor, and whether the call read outside the span or reached
\* UNREACHABLE() (the table gave 0).
utf8_chop_char(buf, view, junk) ==
    LET b0 == DataAt(buf, view, 0, junk)
        b1 == DataAt(buf, view, 1, junk)
        b2 == DataAt(buf, view, 2, junk)
        b3 == DataAt(buf, view, 3, junk)
        char_size == utf8_char_size(b0)
        code ==
            CASE char_size = 1 -> b0
              [] char_size = 2 ->
                    BitOr(Shl32(BitAnd(b0, \H1F), 6), BitAnd(b1, \H3F))
              [] char_size = 3 ->
                    BitOr(BitOr(Shl32(BitAnd(b0, \H0F), 12),
                                Shl32(BitAnd(b1, \H3F), 6)),
                          BitAnd(b2, \H3F))
              [] char_size = 4 ->
                    BitOr(BitOr(BitOr(Shl32(BitAnd(b0, \H07), 18),
                                      Shl32(BitAnd(b1, \H3F), 12)),
                                Shl32(BitAnd(b2, \H3F), 6)),
                          BitAnd(b3, \H3F))
              [] OTHER -> junk
    IN  [char_code |-> code,
         result    |-> [data |-> view.data, size |-> char_size],
         string    |-> [data |-> view.data + char_size, size |-> view.size - char_size],
         ub        |-> char_size = 0 \/ view.size < char_size]

\* utf8_validate without the check that the span holds the bytes the leading
\* byte declares.
RECURSIVE utf8_validate_nolen(_, _)
utf8_validate_nolen(buf, view) ==
    IF ~(view.size > 0) THEN TRUE
    ELSE
        LET char_size == utf8_char_size(DataAt(buf, view, 0, 0))
        IN  IF char_size = 0 THEN FALSE
            ELSE
                LET r == utf8_chop_char(buf, view, 0)
                IN  IF char_size = 3 /\ (r.char_code < \H0800 \/ r.char_code > \HFFFF)
                    THEN FALSE
                    ELSE IF char_size = 3 /\ r.char_code >= \HD800 /\ r.char_code <= \HDFFF
                    THEN FALSE
                    ELSE IF char_size = 4 /\ (r.char_code < \H10000 \/ r.char_code > \H10FFFF)
                    THEN FALSE
                    ELSE utf8_validate_nolen(buf, r.string)

\* bool utf8_validate(StringView string): the while loop, one code point a turn.
RECURSIVE utf8_validate(_, _)
utf8_validate(buf, view) ==
    IF ~(view.size > 0) THEN TRUE
    ELSE
        LET char_size == utf8_char_size(DataAt(buf, view, 0, 0))
        IN  IF char_size = 0 \/ view.size < char_size THEN FALSE
            ELSE
                LET r == utf8_chop_char(buf, view, 0)
                IN  IF char_size = 3 /\ (r.char_code < \H0800 \/ r.char_code > \HFFFF)
                    THEN FALSE
                    ELSE IF char_size = 3 /\ r.char_code >= \HD800 /\ r.char_code <= \HDFFF
                    THEN FALSE
                    ELSE IF char_size = 4 /\ (r.char_code < \H10000 \/ r.char_code > \H10FFFF)
                    THEN FALSE
                    ELSE utf8_validate(buf, r.string)

\* bool char_is_space(u32 char_code)
char_is_space(c) ==
    \/ c = \H0020
    \/ c = \H0009
    \/ c = \H000A
    \/ c = \H000C
    \/ c = \H000D

(***************************************************************************)
(* Arena                                                                   *)
(***************************************************************************)
ARENA_DEFAULT_ALIGNMENT == 16

\* The width of uptr in the model.  The code's uptr has 64 bits; only the bits
\* below the alignment survive the mask, and they are the same at any width
\* that holds the addresses.
UptrBits == 28

\* ~(uptr)x + 1
NegUptr(x) == (((2 ^ UptrBits) - 1 - (x % (2 ^ UptrBits))) + 1) % (2 ^ UptrBits)

\* isize padding = (isize)((~(uptr)arena->begin + 1) & ((uptr)alignment - 1));
Padding(begin, alignment) == BitAnd(NegUptr(begin), alignment - 1)

NoBlock == [ptr |-> NULL, size |-> 0]

\* arena_alloc_aligned advancing begin by the size alone, the padding forgotten.
arena_alloc_aligned_nopad(a, size, alignment) ==
    IF ~(alignment > 0 /\ BitAnd(alignment, alignment - 1) = 0)
    THEN [arena |-> a, ptr |-> NULL, abort |-> TRUE, padding |-> 0]
    ELSE IF size = 0
    THEN [arena |-> a, ptr |-> NULL, abort |-> FALSE, padding |-> 0]
    ELSE
        LET padding == Padding(a.begin, alignment)
            memory_left == a.end - a.begin - padding
        IN  IF memory_left < 0 \/ memory_left < size
            THEN [arena |-> a, ptr |-> NULL, abort |-> TRUE, padding |-> padding]
            ELSE [arena   |-> [a EXCEPT !.begin = a.begin + size],
                  ptr     |-> a.begin + padding,
                  abort   |-> FALSE,
                  padding |-> padding]

\* arena_alloc_aligned with the padding left out of memory_left.
arena_alloc_aligned_unpadded_check(a, size, alignment) ==
    IF ~(alignment > 0 /\ BitAnd(alignment, alignment - 1) = 0)
    THEN [arena |-> a, ptr |-> NULL, abort |-> TRUE, padding |-> 0]
    ELSE IF size = 0
    THEN [arena |-> a, ptr |-> NULL, abort |-> FALSE, padding |-> 0]
    ELSE
        LET padding == Padding(a.begin, alignment)
            memory_left == a.end - a.begin
        IN  IF memory_left < 0 \/ memory_left < size
            THEN [arena |-> a, ptr |-> NULL, abort |-> TRUE, padding |-> padding]
            ELSE [arena   |-> [a EXCEPT !.begin = a.begin + padding + size],
                  ptr     |-> a.begin + padding,
                  abort   |-> FALSE,
                  padding |-> padding]

\* void *arena_alloc_aligned(Arena *arena, isize size, isize alignment):
\* the arena afterwards, the pointer returned, and whether the call aborted
\* (the overflow abort(), or the assert on the alignment).
arena_alloc_aligned(a, size, alignment) ==
    IF ~(alignment > 0 /\ BitAnd(alignment, alignment - 1) = 0)
    THEN [arena |-> a, ptr |-> NULL, abort |-> TRUE, padding |-> 0]
    ELSE IF size = 0
    THEN [arena |-> a, ptr |-> NULL, abort |-> FALSE, padding |-> 0]
    ELSE
        LET padding == Padding(a.begin, alignment)
            memory_left == a.end - a.begin - padding
        IN  IF memory_left < 0 \/ memory_left < size
            THEN [arena |-> a, ptr |-> NULL, abort |-> TRUE, padding |-> padding]
            ELSE [arena   |-> [a EXCEPT !.begin = a.begin + padding + size],
                  ptr     |-> a.begin + padding,
                  abort   |-> FALSE,
                  padding |-> padding]

\* void *arena_alloc(Arena *arena, isize size)
arena_alloc(a, size) == arena_alloc_aligned(a, size, ARENA_DEFAULT_ALIGNMENT)

\* memcpy(dst, src, n) on the arena's bytes
Memcpy(m, dst, src, n) ==
    [x \in DOMAIN m |-> IF x >= dst /\ x < dst + n THEN m[src + (x - dst)] ELSE m[x]]

\* void *arena_realloc(Arena *arena, void *old_ptr, isize old_size, isize new_size):
\* the arena and the memory afterwards, the pointer returned, whether it aborted.
arena_realloc(a, m, old_ptr, old_size, new_size) ==
    IF old_size >= new_size
    THEN [arena |-> a, mem |-> m, ptr |-> old_ptr, abort |-> FALSE, padding |-> 0]
    ELSE IF old_ptr # NULL /\ old_ptr + old_size = a.begin
    THEN
        LET r == arena_alloc([a EXCEPT !.begin = old_ptr], new_size)
        IN  [arena |-> r.arena, mem |-> m, ptr |-> r.ptr, abort |-> r.abort,
             padding |-> r.padding]
    ELSE
        LET r == arena_alloc(a, new_size)
        IN  [arena   |-> r.arena,
             mem     |-> IF r.abort THEN m ELSE Memcpy(m, r.ptr, old_ptr, old_size),
             ptr     |-> r.ptr,
             abort   |-> r.abort,
             padding |-> r.padding]

\* The bytes of a block, in address order.
BytesOf(m, ptr, size) == [i \in 1 .. size |-> m[ptr + i - 1]]

(***************************************************************************)
(* The states in which a part of the program is not running.               *)
(***************************************************************************)
NoCall ==
    [op |-> "none", size |-> 0, alignment |-> 0, old |-> NoBlock,
     before |-> [begin |-> 0, end |-> 0], ptr |-> NULL, abort |-> FALSE,
     padding |-> 0, recent |-> FALSE, held |-> <<>>]

NoAcct == [size |-> 0, padding |-> 0, calls |-> 0, reallocs |-> 0]

EmptyView == [data |-> 0, size |-> 0]

IdleUtf8 ==
    /\ text = <<>>
    /\ string = EmptyView
    /\ char_code = 0
    /\ chopped = EmptyView
    /\ valid = "unset"
    /\ ub = FALSE
    /\ sample = [code |-> 0, string |-> EmptyView]

IdleMain ==
    /\ pc = "idle"
    /\ font_chars = [data |-> NULL, size |-> 0, capacity |-> 0]
    /\ font = [width |-> 0, height |-> 0, bytes_per_color |-> 0, cells |-> <<>>]
    /\ font_char_count = 0
    /\ glyphs = [base |-> NULL, iter |-> NULL, end |-> NULL]
    /\ font_char_iter = EmptyView
    /\ table = <<>>
    /\ scan = [font_grid_x |-> 0, font_grid_y |-> 0, examined |-> 0]
    /\ out = [exit_code |-> -1, error |-> "", printed |-> FALSE, dump |-> <<>>]

(***************************************************************************)
(* The arena driven by an arbitrary caller: any sequence of                *)
(* arena_alloc_aligned, arena_alloc and arena_realloc calls, the caller    *)
(* writing into the block it was given last.                               *)
(***************************************************************************)
ArenaBase == 64

ArenaSize == 32

MaxCalls == 3

AllocSizes == {0, 1, 16, ArenaSize, ArenaSize + 1}

Alignments == {1, 4, 16, 32}

ArenaRegion == ArenaBase .. (ArenaBase + ArenaSize - 1)

\* The byte the caller writes at offset i of its block.
FillByte(i) == (\HA0 + i) % 256

ArenaInit ==
    /\ arena = [begin |-> ArenaBase, end |-> ArenaBase + ArenaSize]
    /\ mem = [x \in ArenaRegion |-> 0]
    /\ blocks = {}
    /\ latest = NoBlock
    /\ last = NoCall
    /\ acct = NoAcct
    /\ IdleUtf8
    /\ IdleMain

ArenaLive == ~last.abort /\ acct.calls < MaxCalls

\* A direct call of arena_alloc_aligned or arena_alloc and what the caller
\* learns from it.
AllocCall(op, size, alignment) ==
    LET r == arena_alloc_aligned(arena, size, alignment)
        b == [ptr |-> r.ptr, size |-> size]
    IN  /\ arena' = r.arena
        /\ mem' = mem
        /\ blocks' = IF r.ptr # NULL THEN blocks \cup {b} ELSE blocks
        /\ latest' = IF r.abort THEN latest ELSE IF r.ptr # NULL THEN b ELSE NoBlock
        /\ last' = [op |-> op, size |-> size, alignment |-> alignment, old |-> NoBlock,
                    before |-> arena, ptr |-> r.ptr, abort |-> r.abort,
                    padding |-> r.padding, recent |-> FALSE, held |-> <<>>]
        /\ acct' = IF r.abort
                   THEN [acct EXCEPT !.calls = @ + 1]
                   ELSE [acct EXCEPT !.calls = @ + 1, !.size = @ + size,
                                     !.padding = @ + r.padding]

Allocate ==
    /\ ArenaLive
    /\ \E size \in AllocSizes, alignment \in Alignments :
            AllocCall("allocate", size, alignment)
    /\ UNCHANGED <<utf8Vars, mainVars>>

AllocateDefault ==
    /\ ArenaLive
    /\ \E size \in AllocSizes :
            AllocCall("allocate_default", size, ARENA_DEFAULT_ALIGNMENT)
    /\ UNCHANGED <<utf8Vars, mainVars>>

\* arena_realloc on a block the arena returned earlier (or on the empty String's
\* NULL block, as file_read_to_string does).
Reallocate ==
    /\ ArenaLive
    /\ \E b \in blocks \cup {NoBlock}, new_size \in AllocSizes :
        LET r == arena_realloc(arena, mem, b.ptr, b.size, new_size)
            grown == [ptr |-> r.ptr, size |-> new_size]
        IN  /\ arena' = r.arena
            /\ mem' = r.mem
            /\ blocks' = IF ~r.abort /\ new_size > b.size THEN blocks \cup {grown}
                         ELSE blocks
            /\ latest' = IF ~r.abort /\ new_size > b.size THEN grown ELSE latest
            /\ last' = [op |-> "reallocate", size |-> new_size,
                        alignment |-> ARENA_DEFAULT_ALIGNMENT, old |-> b,
                        before |-> arena, ptr |-> r.ptr, abort |-> r.abort,
                        padding |-> r.padding,
                        recent |-> b # NoBlock /\ b = latest,
                        held |-> BytesOf(mem, b.ptr, b.size)]
            /\ acct' = [acct EXCEPT !.calls = @ + 1, !.reallocs = @ + 1]
    /\ UNCHANGED <<utf8Vars, mainVars>>

\* The caller fills the block it was given last.
Store ==
    /\ ~last.abort
    /\ latest # NoBlock
    /\ mem' = [x \in DOMAIN mem |->
                IF x >= latest.ptr /\ x < latest.ptr + latest.size
                THEN FillByte(x - latest.ptr) ELSE mem[x]]
    /\ mem' # mem
    /\ UNCHANGED <<arena, blocks, latest, last, acct, utf8Vars, mainVars>>

ArenaNext == Allocate \/ AllocateDefault \/ Reallocate \/ Store

SpecArena == ArenaInit /\ [][ArenaNext]_vars

(***************************************************************************)
(* The decoder and the validator on arbitrary byte strings: utf8_validate  *)
(* on the whole span, then the caller's decoding loop (main.c:317-323),    *)
(* which chops while the span is not empty, whatever the verdict was.      *)
(***************************************************************************)
MaxTextLen == 4

Utf8Bytes == {\H41, \H80, \HA0, \HBF, \HC0, \HC2, \HE0, \HED, \HF0, \HF4, \HF5}

\* What a read outside the span may find.
JunkBytes == {\H41, \H80}

RECURSIVE SeqsUpTo(_, _)
SeqsUpTo(S, n) ==
    IF n = 0 THEN {<<>>}
    ELSE LET shorter == SeqsUpTo(S, n - 1)
         IN  shorter \cup {Append(t, b) : t \in {u \in shorter : Len(u) = n - 1}, b \in S}

IdleArena ==
    /\ arena = [begin |-> 0, end |-> 0]
    /\ mem = <<>>
    /\ blocks = {}
    /\ latest = NoBlock
    /\ last = NoCall
    /\ acct = NoAcct

Utf8Init ==
    /\ text \in SeqsUpTo(Utf8Bytes, MaxTextLen)
    /\ string = [data |-> 0, size |-> Len(text)]
    /\ char_code = 0
    /\ chopped = EmptyView
    /\ valid = "unset"
    /\ ub = FALSE
    /\ sample = [code |-> 0, string |-> EmptyView]
    /\ IdleArena
    /\ IdleMain

Validate ==
    /\ valid = "unset"
    /\ valid' = IF utf8_validate(text, string) THEN "true" ELSE "false"
    /\ UNCHANGED <<text, string, char_code, chopped, ub, sample, arenaVars, mainVars>>

ChopChar ==
    /\ valid # "unset"
    /\ string.size > 0
    /\ \E junk \in JunkBytes :
        LET r == utf8_chop_char(text, string, junk)
        IN  /\ char_code' = r.char_code
            /\ chopped' = r.result
            /\ string' = r.string
            /\ ub' = (ub \/ r.ub)
    /\ UNCHANGED <<text, valid, sample, arenaVars, mainVars>>

Utf8Next == Validate \/ ChopChar

SpecUtf8 == Utf8Init /\ [][Utf8Next]_vars

(***************************************************************************)
(* The reference the UTF-8 claims are stated against: the encoding of a    *)
(* code point (Unicode, table 3-6) and well-formedness as a concatenation  *)
(* of such encodings.                                                      *)
(***************************************************************************)
IsScalar(c) == (c >= 0 /\ c <= \HD7FF) \/ (c >= \HE000 /\ c <= \H10FFFF)

Encode(c) ==
    IF c < \H80 THEN <<c>>
    ELSE IF c < \H800 THEN <<\HC0 + (c \div 64), \H80 + (c % 64)>>
    ELSE IF c < \H10000
    THEN <<\HE0 + (c \div 4096), \H80 + ((c \div 64) % 64), \H80 + (c % 64)>>
    ELSE <<\HF0 + (c \div 262144), \H80 + ((c \div 4096) % 64),
           \H80 + ((c \div 64) % 64), \H80 + (c % 64)>>

IsCont(b) == b >= \H80 /\ b <= \HBF

\* The number a byte string denotes if it is read as one encoded code point,
\* -1 if its bytes do not have the shape of one.
Denoted(p) ==
    LET n == Len(p)
        tails == \A i \in 2 .. n : IsCont(p[i])
    IN  IF n = 1 /\ p[1] < \H80 THEN p[1]
        ELSE IF n = 2 /\ p[1] >= \HC0 /\ p[1] <= \HDF /\ tails
        THEN (p[1] - \HC0) * 64 + (p[2] - \H80)
        ELSE IF n = 3 /\ p[1] >= \HE0 /\ p[1] <= \HEF /\ tails
        THEN (p[1] - \HE0) * 4096 + (p[2] - \H80) * 64 + (p[3] - \H80)
        ELSE IF n = 4 /\ p[1] >= \HF0 /\ p[1] <= \HF7 /\ tails
        THEN (p[1] - \HF0) * 262144 + (p[2] - \H80) * 4096 + (p[3] - \H80) * 64
                + (p[4] - \H80)
        ELSE -1

IsEncoding(p) == IsScalar(Denoted(p)) /\ Encode(Denoted(p)) = p

RECURSIVE WellFormed(_)
WellFormed(s) ==
    \/ s = <<>>
    \/ \E n \in 1 .. Min(4, Len(s)) :
            /\ IsEncoding(SubSeq(s, 1, n))
            /\ WellFormed(SubSeq(s, n + 1, Len(s)))

(***************************************************************************)
(* One utf8_chop_char call on a span that starts with the encoding of a    *)
(* code point: the view starts somewhere inside a buffer (after a prefix)  *)
(* and may go on after the encoding.                                       *)
(***************************************************************************)
Stride == 257

Boundaries ==
    {\H0, \H1, \H7F, \H80, \H7FF, \H800, \HFFF, \H1000, \HD7FF, \HE000, \HFFFF,
     \H10000, \H3FFFF, \H40000, \H10FFFF}

CodePoints ==
    Boundaries \cup {k * Stride : k \in {j \in 0 .. (\H10FFFF \div Stride) : IsScalar(j * Stride)}}

Prefixes == {<<>>, <<\H20>>}

Suffixes == {<<>>, <<\H41>>, <<\H80>>}

RoundTripInit ==
    /\ \E c \in CodePoints, pre \in Prefixes, suf \in Suffixes :
        /\ text = pre \o Encode(c) \o suf
        /\ string = [data |-> Len(pre), size |-> Len(Encode(c)) + Len(suf)]
        /\ sample = [code |-> c, string |-> string]
    /\ char_code = 0
    /\ chopped = EmptyView
    /\ valid = "unset"
    /\ ub = FALSE
    /\ IdleArena
    /\ IdleMain

DecodeOne ==
    /\ valid = "unset"
    /\ \E junk \in JunkBytes :
        LET r == utf8_chop_char(text, string, junk)
        IN  /\ char_code' = r.char_code
            /\ chopped' = r.result
            /\ string' = r.string
            /\ ub' = (ub \/ r.ub)
    /\ valid' = "decoded"
    /\ UNCHANGED <<text, sample, arenaVars, mainVars>>

RoundTripNext == DecodeOne

SpecRoundTrip == RoundTripInit /\ [][RoundTripNext]_vars

\* The bytes a StringView into buf covers.
Slice(buf, view) == SubSeq(buf, view.data + 1, view.data + view.size)

(***************************************************************************)
(* main: the legend file and the font bitmap are read when main loads      *)
(* them; the bitmap is a grid of cells, each drawn from a few patterns.    *)
(***************************************************************************)
GLYPH_WIDTH == 8

GLYPH_HEIGHT == 8

ARENA_CAPACITY == 67108864

\* sizeof(Glyph): u32, padding, two pointers
SizeofGlyph == 24

\* sizeof(u32)
SizeofU32 == 4

MaxLegendLen == 3

MaxCells == 4

LegendBytes == {\H20, \H41, \HC2, \HA0}

\* Longer legends: " A \n B ", and two that mix the five whitespace code points
\* with code points next to them (U+000B, U+001F, U+0021, U+0085, U+2028).
SampleLegends ==
    {<<\H20, \H41, \H20, \H0A, \H20, \H42, \H20>>,
     <<\H09, \H0B, \H0A, \H0C, \HC2, \H85, \H0D>>,
     <<\HE2, \H80, \HA8, \H0C, \H21, \H1F>>}

\* The contents the legend file may have.
Legends == SeqsUpTo(LegendBytes, MaxLegendLen) \cup SampleLegends

BytesPerColor == {1, 2}

InkPatterns == <<"dot", "bar", "ring">>

\* The byte of channel ch of the pixel (x, y) of a cell of pattern p.  Only a
\* zero in channel 0 is ink: "blank" has none (and zeros in the other
\* channels), "dot" has one in its last pixel, "bar" down its left column,
\* "ring" on its border.
PatternByte(p, x, y, ch) ==
    CASE p = "blank" -> IF ch = 0 THEN \HFF ELSE \H00
      [] p = "dot"   -> IF ch = 0 THEN (IF x = 7 /\ y = 7 THEN \H00 ELSE \H01) ELSE \HFF
      [] p = "bar"   -> IF ch = 0 THEN (IF x = 0 THEN \H00 ELSE \H80) ELSE \H00
      [] p = "ring"  -> IF ch = 0
                        THEN (IF x \in {0, 7} \/ y \in {0, 7} THEN \H00 ELSE \HFE)
                        ELSE \H01

GridShapes ==
    {sh \in (1 .. MaxCells) \X (1 .. MaxCells) : sh[1] * sh[2] <= MaxCells}

\* The pictures stbi_load may return: width and height in pixels, the bytes per
\* pixel, and the pattern of every cell in row-major order.  A cell is blank
\* or inked, and the inked cells take the ink patterns in turn by position, so
\* that neighbouring glyphs differ.
Fonts ==
    UNION {
        {[width |-> sh[1] * GLYPH_WIDTH, height |-> sh[2] * GLYPH_HEIGHT,
          bytes_per_color |-> bpc,
          cells |-> [i \in 1 .. sh[1] * sh[2] |->
                        IF i \in inked THEN InkPatterns[(i % 3) + 1] ELSE "blank"]] :
            bpc \in BytesPerColor, inked \in SUBSET (1 .. sh[1] * sh[2])} :
        sh \in GridShapes}

\* font.data[i]: the packed pixel buffer, rows of pixels top to bottom, each
\* pixel bytes_per_color bytes.  A read outside the buffer yields junk.
FontDataLen(f) == f.width * f.height * f.bytes_per_color

FontData(f, i, junk) ==
    IF i < 0 \/ i >= FontDataLen(f) THEN junk
    ELSE
        LET pixel == i \div f.bytes_per_color
            ch == i % f.bytes_per_color
            px == pixel % f.width
            py == pixel \div f.width
            cell == (py \div GLYPH_HEIGHT) * (f.width \div GLYPH_WIDTH) + (px \div GLYPH_WIDTH)
        IN  PatternByte(f.cells[cell + 1], px % GLYPH_WIDTH, py % GLYPH_HEIGHT, ch)

\* u32 values that do not fit the checker's integers: <<bits 31..24, bits 23..0>>
U32(high, low) == <<high, low>>

\* The pre-scan of main.c:314-324: the number of non-whitespace code points
\* and whether a call left the span.
RECURSIVE CountChars(_, _, _, _)
CountChars(buf, view, junk, acc) ==
    IF ~(view.size > 0) THEN acc
    ELSE
        LET r == utf8_chop_char(buf, view, junk)
        IN  IF r.ub /\ r.result.size = 0
            THEN [acc EXCEPT !.ub = TRUE]
            ELSE CountChars(buf, r.string, junk,
                            [count |-> acc.count + (IF char_is_space(r.char_code) THEN 0 ELSE 1),
                             ub    |-> acc.ub \/ r.ub])

\* do { char_data = utf8_chop_char(&font_char_iter, &char_code); }
\* while (char_is_space(char_code));  (main.c:383-385)
RECURSIVE NextChar(_, _, _, _)
NextChar(buf, view, junk, fuel) ==
    LET r == utf8_chop_char(buf, view, junk)
    IN  IF char_is_space(r.char_code) /\ fuel > 0
        THEN LET n == NextChar(buf, r.string, junk, fuel - 1)
             IN  [n EXCEPT !.ub = n.ub \/ r.ub]
        ELSE [char_code |-> r.char_code, char_data |-> r.result, string |-> r.string,
              ub |-> r.ub \/ (char_is_space(r.char_code) /\ fuel = 0)]

\* CellColor stepping from one line of the cell to the next by the width of a
\* glyph instead of the width of the picture.
CellColor_glyph_stride(f, font_data_index, glyph_x, glyph_y, junk) ==
    LET glyph_line_start ==
            font_data_index * f.bytes_per_color + glyph_y * (GLYPH_WIDTH * f.bytes_per_color)
    IN  FontData(f, glyph_line_start + glyph_x * f.bytes_per_color, junk)

\* The first channel of the pixel (glyph_x, glyph_y) of the cell whose first
\* pixel has index font_data_index (main.c:361-371 and 396-409).
CellColor(f, font_data_index, glyph_x, glyph_y, junk) ==
    LET glyph_line_start ==
            font_data_index * f.bytes_per_color + glyph_y * (f.width * f.bytes_per_color)
    IN  FontData(f, glyph_line_start + glyph_x * f.bytes_per_color, junk)

\* Whether the 8x8 pixels read from font_data_index on lie inside font.data.
CellInside(f, font_data_index) ==
    /\ font_data_index >= 0
    /\ (font_data_index + (GLYPH_HEIGHT - 1) * f.width + (GLYPH_WIDTH - 1))
            * f.bytes_per_color < FontDataLen(f)

\* bool glyph_is_empty after the loops of main.c:359-373
GlyphIsEmpty(f, font_data_index, junk) ==
    \A glyph_y \in 0 .. GLYPH_HEIGHT - 1, glyph_x \in 0 .. GLYPH_WIDTH - 1 :
        CellColor(f, font_data_index, glyph_x, glyph_y, junk) # \H00

\* glyph_iter->bitmap after the loops of main.c:398-410
GlyphBitmap(f, font_data_index, junk) ==
    [i \in 1 .. GLYPH_WIDTH * GLYPH_HEIGHT |->
        IF CellColor(f, font_data_index, (i - 1) % GLYPH_WIDTH, (i - 1) \div GLYPH_WIDTH, junk)
            = \H00
        THEN U32(\HFF, 0) ELSE U32(\H00, 0)]

\* glyphs_print: what goes to stdout for one glyph
PrintGlyph(g) ==
    [char_data |-> g.text, char_code |-> g.char_code,
     art |-> [i \in 1 .. GLYPH_WIDTH * GLYPH_HEIGHT |->
                IF g.pixels[i][1] = \H00 THEN " " ELSE "@"]]

MoreGlyphs == "There are more glyphs in the bitmap than chars in the text file."

MoreChars == "There are more chars in the text file than glyphs in the bitmap."

InvalidUtf8 == "Failed to load font chars due to invalid UTF-8."

ArenaOverflow == "Arena overflow."

Fail(message) == [exit_code |-> 1, error |-> message, printed |-> FALSE, dump |-> <<>>]

\* abort(): the process dies on SIGABRT
Abort == [exit_code |-> 134, error |-> ArenaOverflow, printed |-> FALSE, dump |-> <<>>]

MainInit ==
    /\ arena = [begin |-> ArenaBase, end |-> ArenaBase + ARENA_CAPACITY]
    /\ mem = <<>>
    /\ blocks = {}
    /\ latest = NoBlock
    /\ last = NoCall
    /\ acct = NoAcct
    /\ IdleUtf8
    /\ pc = "start"
    /\ font_chars = [data |-> NULL, size |-> 0, capacity |-> 0]
    /\ font = [width |-> 0, height |-> 0, bytes_per_color |-> 0, cells |-> <<>>]
    /\ font_char_count = 0
    /\ glyphs = [base |-> NULL, iter |-> NULL, end |-> NULL]
    /\ font_char_iter = EmptyView
    /\ table = <<>>
    /\ scan = [font_grid_x |-> 0, font_grid_y |-> 0, examined |-> 0]
    /\ out = [exit_code |-> -1, error |-> "", printed |-> FALSE, dump |-> <<>>]

\* main.c:304-324: file_read_to_string on the empty String, utf8_validate, and
\* the counting pre-scan.
LoadChars ==
    /\ pc = "start"
    /\ \E file \in Legends, junk \in JunkBytes :
        LET file_size == Len(file)
            grow == font_chars.size + file_size > font_chars.capacity
            r == IF grow
                 THEN arena_realloc(arena, mem, font_chars.data, font_chars.capacity,
                                    font_chars.size + file_size)
                 ELSE [arena |-> arena, mem |-> mem, ptr |-> font_chars.data,
                       abort |-> FALSE, padding |-> 0]
            loaded == [data |-> r.ptr,
                       size |-> font_chars.size + file_size,
                       capacity |-> IF grow THEN font_chars.size + file_size
                                    ELSE font_chars.capacity]
            view == [data |-> 0, size |-> loaded.size]
            ok == utf8_validate(file, view)
            counted == CountChars(file, view, junk, [count |-> 0, ub |-> FALSE])
        IN  /\ text' = file
            /\ arena' = r.arena
            /\ IF r.abort
               THEN /\ pc' = "done"
                    /\ out' = Abort
                    /\ UNCHANGED <<font_chars, valid, font_char_count, ub>>
               ELSE /\ font_chars' = loaded
                    /\ valid' = IF ok THEN "true" ELSE "false"
                    /\ IF ~ok
                       THEN /\ pc' = "done"
                            /\ out' = Fail(InvalidUtf8)
                            /\ UNCHANGED <<font_char_count, ub>>
                       ELSE /\ pc' = "chars"
                            /\ font_char_count' = counted.count
                            /\ ub' = (ub \/ counted.ub)
                            /\ out' = out
    /\ UNCHANGED <<mem, blocks, latest, last, acct, string, char_code, chopped, sample,
                   font, glyphs, font_char_iter, table, scan>>

\* main.c:326-353: stbi_load, the check of the dimensions, the glyph array and
\* the cursors of the extraction pass.
LoadFont ==
    /\ pc = "chars"
    /\ \E picture \in Fonts :
        LET r == arena_alloc(arena, font_char_count * SizeofGlyph)
        IN  /\ font' = picture
            /\ IF picture.width % GLYPH_WIDTH # 0 \/ picture.height % GLYPH_HEIGHT # 0
               THEN /\ pc' = "done"
                    /\ out' = Fail("Font bitmap dimensions are not divisble by the glyph dimensions.")
                    /\ UNCHANGED <<arena, glyphs, font_char_iter>>
               ELSE /\ arena' = r.arena
                    /\ IF r.abort
                       THEN /\ pc' = "done"
                            /\ out' = Abort
                            /\ UNCHANGED <<glyphs, font_char_iter>>
                       ELSE /\ glyphs' = [base |-> r.ptr, iter |-> r.ptr,
                                          end |-> r.ptr + font_char_count * SizeofGlyph]
                            /\ font_char_iter' = [data |-> 0, size |-> font_chars.size]
                            /\ pc' = IF 0 < picture.height /\ 0 < picture.width
                                     THEN "scan" ELSE "scanned"
                            /\ out' = out
    /\ scan' = [font_grid_x |-> 0, font_grid_y |-> 0, examined |-> 0]
    /\ UNCHANGED <<mem, blocks, latest, last, acct, utf8Vars, font_chars, font_char_count,
                   table>>

\* The outer loop ending one row of cells early.
ScanOver_early(s) == ~(s.font_grid_y + GLYPH_HEIGHT < font.height)

\* The loop headers of main.c:355-356 after the body of one cell: the next
\* cell of the row, else the first cell of the next row, else the end.
Advance(s) ==
    IF s.font_grid_x + GLYPH_WIDTH < font.width
    THEN [s EXCEPT !.font_grid_x = @ + GLYPH_WIDTH, !.examined = @ + 1]
    ELSE [s EXCEPT !.font_grid_x = 0, !.font_grid_y = @ + GLYPH_HEIGHT, !.examined = @ + 1]

ScanOver(s) == ~(s.font_grid_y < font.height)

\* A non-empty cell while glyph_iter # glyphs_end (main.c:381-412): the next
\* non-whitespace code point, its bytes and the cell's bitmap become a Glyph.
WriteGlyph(font_data_index, junk) ==
    LET n == NextChar(text, font_char_iter, junk, Len(text) + 1)
        a1 == arena_alloc_aligned(arena, n.char_data.size + 1, 1)
        a2 == arena_alloc_aligned(a1.arena, GLYPH_WIDTH * GLYPH_HEIGHT * SizeofU32, 4)
        glyph == [char_code |-> n.char_code,
                  char_data |-> a1.ptr,
                  bitmap    |-> a2.ptr,
                  text      |-> [i \in 1 .. n.char_data.size + 1 |->
                                    IF i <= n.char_data.size
                                    THEN DataAt(text, n.char_data, i - 1, junk)
                                    ELSE 0],
                  pixels    |-> GlyphBitmap(font, font_data_index, junk)]
    IN  /\ font_char_iter' = n.string
        /\ ub' = (ub \/ n.ub \/ ~CellInside(font, font_data_index))
        /\ IF a1.abort \/ a2.abort
           THEN /\ arena' = IF a1.abort THEN a1.arena ELSE a2.arena
                /\ pc' = "done"
                /\ out' = Abort
                /\ UNCHANGED <<glyphs, table, scan>>
           ELSE /\ arena' = a2.arena
                /\ table' = Append(table, glyph)
                /\ glyphs' = [glyphs EXCEPT !.iter = @ + SizeofGlyph]
                /\ scan' = Advance(scan)
                /\ pc' = IF ScanOver(Advance(scan)) THEN "scanned" ELSE "scan"
                /\ out' = out

\* What the reads of one turn that leave their buffer may find: nothing to
\* choose when the cell lies inside font.data and the pull, if one is made,
\* stays inside the legend span (whether a read leaves the span does not
\* depend on what an earlier stray read found: the first one already does).
JunkOfTurn(font_data_index) ==
    IF /\ CellInside(font, font_data_index)
       /\ \/ glyphs.iter = glyphs.end
          \/ ~NextChar(text, font_char_iter, 0, Len(text) + 1).ub
    THEN {0}
    ELSE JunkBytes

\* One turn of the inner loop of main.c:356-414: one cell of the grid.
ScanCell ==
    /\ pc = "scan"
    /\ LET font_data_index == scan.font_grid_y * font.width + scan.font_grid_x
       IN  \E junk \in JunkOfTurn(font_data_index) :
            LET glyph_is_empty == GlyphIsEmpty(font, font_data_index, junk)
                stray == ~CellInside(font, font_data_index)
            IN  IF glyph_is_empty
                THEN /\ scan' = Advance(scan)
                     /\ pc' = IF ScanOver(Advance(scan)) THEN "scanned" ELSE "scan"
                     /\ ub' = (ub \/ stray)
                     /\ UNCHANGED <<arena, glyphs, font_char_iter, table, out>>
                ELSE IF glyphs.iter = glyphs.end
                THEN /\ pc' = "done"
                     /\ out' = Fail(MoreGlyphs)
                     /\ scan' = [scan EXCEPT !.examined = @ + 1]
                     /\ ub' = (ub \/ stray)
                     /\ UNCHANGED <<arena, glyphs, font_char_iter, table>>
                ELSE WriteGlyph(font_data_index, junk)
    /\ UNCHANGED <<mem, blocks, latest, last, acct, text, string, char_code, chopped, valid,
                   sample, font_chars, font, font_char_count>>

\* The end of main without the check of glyph_iter against glyphs_end.
Finish_unchecked ==
    /\ pc = "scanned"
    /\ pc' = "done"
    /\ out' = [exit_code |-> 0, error |-> "", printed |-> TRUE,
               dump |-> [k \in 1 .. Len(table) |-> PrintGlyph(table[k])]]
    /\ UNCHANGED <<arenaVars, utf8Vars, font_chars, font, font_char_count, glyphs,
                   font_char_iter, table, scan>>

\* main.c:417-424: the check after the scan, and glyphs_print.
Finish ==
    /\ pc = "scanned"
    /\ pc' = "done"
    /\ out' = IF glyphs.iter # glyphs.end
              THEN Fail(MoreChars)
              ELSE [exit_code |-> 0, error |-> "", printed |-> TRUE,
                    dump |-> [k \in 1 .. (glyphs.end - glyphs.base) \div SizeofGlyph |->
                                PrintGlyph(table[k])]]
    /\ UNCHANGED <<arenaVars, utf8Vars, font_chars, font, font_char_count, glyphs,
                   font_char_iter, table, scan>>

MainNext == LoadChars \/ LoadFont \/ ScanCell \/ Finish

SpecMain == MainInit /\ [][MainNext]_vars

(***************************************************************************)
(* Claims about the arena (under SpecArena)                                *)
(***************************************************************************)
IsAllocate(c) == c.op \in {"allocate", "allocate_default"}

Remaining(a) == a.end - a.begin

\* C3: growing the most recent allocation of the arena with arena_realloc, no
\* allocation in between, returns the old pointer, and the first old_size
\* bytes behind it are the bytes the block held before the call.
C3_InPlaceGrowth ==
    (/\ last.op = "reallocate"
     /\ last.recent
     /\ last.size > last.old.size
     /\ ~last.abort)
    => (/\ last.ptr = last.old.ptr
        /\ BytesOf(mem, last.ptr, last.old.size) = last.held)

\* C7: as long as only allocate / allocate_default were called, the remaining
\* space has gone down by exactly the sizes granted plus the paddings (so by
\* at least the sizes), and a request larger than the remaining space aborts
\* and returns no pointer.
C7_ArenaMonotonic ==
    /\ acct.reallocs = 0 =>
        /\ Remaining(arena) = ArenaSize - (acct.size + acct.padding)
        /\ ArenaSize - Remaining(arena) >= acct.size
        /\ acct.padding >= 0
    /\ (IsAllocate(last) /\ last.size > Remaining(last.before)) =>
        (last.abort /\ last.ptr = NULL)

C7_Witness ==
    /\ acct.reallocs = 0
    /\ acct.calls = 3
    /\ acct.size > 0
    /\ acct.padding > 0
    /\ IsAllocate(last)
    /\ last.size > Remaining(last.before)
    /\ Remaining(last.before) > 0
    /\ last.abort

\* C8: begin <= end in every state, every block returned lies inside the
\* arena's original region, and a request made when begin = end gets no
\* block: it aborts, or it asked for nothing and got NULL.
C8_ArenaBounds ==
    /\ arena.begin <= arena.end
    /\ arena.begin >= ArenaBase
    /\ arena.end = ArenaBase + ArenaSize
    /\ \A b \in blocks : b.ptr >= ArenaBase /\ b.ptr + b.size <= ArenaBase + ArenaSize
    /\ (/\ last.op # "none"
        /\ last.before.begin = last.before.end
        /\ (IsAllocate(last) \/ last.size > last.old.size))
       => (last.abort \/ (last.size = 0 /\ last.ptr = NULL))

C8_Witness ==
    /\ last.op = "reallocate"
    /\ last.before.begin = last.before.end
    /\ last.size > last.old.size
    /\ last.abort
    /\ Cardinality(blocks) >= 2
    /\ \E b \in blocks : b.ptr + b.size = ArenaBase + ArenaSize

(***************************************************************************)
(* Claims about the validator and the decoder                              *)
(***************************************************************************)
\* The length a leading byte declares by its bit pattern (110xxxxx, 1110xxxx,
\* 11110xxx), 1 for a byte without the top bit, 0 for a continuation byte.
DeclaredLen(b) ==
    IF b < \H80 THEN 1
    ELSE IF b < \HC0 THEN 0
    ELSE IF b < \HE0 THEN 2
    ELSE IF b < \HF0 THEN 3
    ELSE IF b < \HF8 THEN 4
    ELSE 0

ContAt(s, i) == i <= Len(s) /\ IsCont(s[i])

\* A continuation byte that continues nothing: no leading byte before it
\* reaches it through continuation bytes only.
LoneContinuation(s) ==
    \E i \in 1 .. Len(s) :
        /\ IsCont(s[i])
        /\ ~ \E j \in 1 .. (i - 1) :
                /\ DeclaredLen(s[j]) >= 2
                /\ i <= j + DeclaredLen(s[j]) - 1
                /\ \A k \in (j + 1) .. i : IsCont(s[k])

\* A leading byte with fewer bytes after it than it declares.
Truncated(s) ==
    \E i \in 1 .. Len(s) : DeclaredLen(s[i]) >= 2 /\ Len(s) - i < DeclaredLen(s[i]) - 1

\* A 2-, 3- or 4-byte form of a code point that fits a shorter form.
Overlong(s) ==
    \E i \in 1 .. Len(s) :
        \/ s[i] \in {\HC0, \HC1} /\ ContAt(s, i + 1)
        \/ s[i] = \HE0 /\ ContAt(s, i + 1) /\ s[i + 1] <= \H9F /\ ContAt(s, i + 2)
        \/ s[i] = \HF0 /\ ContAt(s, i + 1) /\ s[i + 1] <= \H8F /\ ContAt(s, i + 2)
            /\ ContAt(s, i + 3)

\* A 3-byte sequence that decodes into [0xD800, 0xDFFF].
SurrogateSeq(s) ==
    \E i \in 1 .. Len(s) :
        s[i] = \HED /\ ContAt(s, i + 1) /\ s[i + 1] >= \HA0 /\ ContAt(s, i + 2)

\* A sequence that decodes to a code point beyond 0x10FFFF.
BeyondMax(s) ==
    \E i \in 1 .. Len(s) :
        /\ ContAt(s, i + 1) /\ ContAt(s, i + 2) /\ ContAt(s, i + 3)
        /\ \/ s[i] = \HF4 /\ s[i + 1] >= \H90
           \/ s[i] >= \HF5 /\ s[i] <= \HF7

HasDefect(s) ==
    LoneContinuation(s) \/ Truncated(s) \/ Overlong(s) \/ SurrogateSeq(s) \/ BeyondMax(s)

\* C4: utf8_validate returns true exactly for the well-formed spans, and the
\* decoding loop over a span it accepted stays inside the span and yields
\* only code points of [0, 0xD7FF] and [0xE000, 0x10FFFF].
C4_ValidateIffWellFormed ==
    /\ valid # "unset" => (valid = "true" <=> WellFormed(text))
    /\ valid = "true" => (~ub /\ string.size >= 0 /\ IsScalar(char_code))

\* C5: utf8_validate returns false for every byte sequence that contains a
\* lone continuation byte, a leading byte that lacks bytes, an overlong
\* encoding, a surrogate 3-byte sequence or a code point beyond 0x10FFFF.
C5_ValidateRejectsDefects ==
    (valid # "unset" /\ HasDefect(text)) => valid = "false"

\* C6: utf8_chop_char on a span that starts with the encoding of a code point
\* c of [0, 0xD7FF] or [0xE000, 0x10FFFF] returns c and the slice holding
\* exactly the encoding's bytes, and moves the cursor past them: data up and
\* size down by the encoding's length.  No read leaves the span.
C6_RoundTrip ==
    valid = "decoded" =>
        /\ char_code = sample.code
        /\ chopped.data = sample.string.data
        /\ Slice(text, chopped) = Encode(sample.code)
        /\ string.data = sample.string.data + Len(Encode(sample.code))
        /\ string.size = sample.string.size - Len(Encode(sample.code))
        /\ ~ub

C6_Witness ==
    /\ valid = "decoded"
    /\ sample.code = \H10FFFF
    /\ sample.string.data = 1
    /\ chopped.size = 4
    /\ string.size = 1

(***************************************************************************)
(* Claims about main (under SpecMain)                                      *)
(***************************************************************************)
IsWhitespace(c) == c \in {\H0020, \H0009, \H000A, \H000C, \H000D}

\* The code points of a legend in reading order, each with its bytes, as
\* utf8_chop_char reads them from the front of the span.
RECURSIVE LegendChars(_, _)
LegendChars(buf, view) ==
    IF ~(view.size > 0) THEN <<>>
    ELSE
        LET r == utf8_chop_char(buf, view, 0)
        IN  IF r.ub THEN <<>>
            ELSE <<[code |-> r.char_code, bytes |-> Slice(buf, r.result)]>>
                    \o LegendChars(buf, r.string)

WholeView(buf) == [data |-> 0, size |-> Len(buf)]

IsNonSpace(c) == ~IsWhitespace(c.code)

NonSpaceChars(buf) == SelectSeq(LegendChars(buf, WholeView(buf)), IsNonSpace)

\* The code points of a well-formed byte string, by the reference.
RECURSIVE RefCodes(_)
RefCodes(s) ==
    IF s = <<>> THEN <<>>
    ELSE LET n == Min(Max(DeclaredLen(s[1]), 1), Len(s))
         IN  <<Denoted(SubSeq(s, 1, n))>> \o RefCodes(SubSeq(s, n + 1, Len(s)))

\* The cursor position right after the k-th non-whitespace code point.
RECURSIVE OffsetAfter(_, _)
OffsetAfter(chars, k) ==
    IF k = 0 \/ chars = <<>> THEN 0
    ELSE Len(Head(chars).bytes)
            + OffsetAfter(Tail(chars), IF IsNonSpace(Head(chars)) THEN k - 1 ELSE k)

PatternHasInk(p) ==
    \E x \in 0 .. GLYPH_WIDTH - 1, y \in 0 .. GLYPH_HEIGHT - 1 : PatternByte(p, x, y, 0) = \H00

\* The non-empty cells of a picture in row-major order.
InkCells(f) == SelectSeq(f.cells, PatternHasInk)

\* The color-key expansion of a cell: 0xFF000000 where the first channel is
\* 0x00, 0x00000000 elsewhere.
Expand(p) ==
    [i \in 1 .. GLYPH_WIDTH * GLYPH_HEIGHT |->
        IF PatternByte(p, (i - 1) % GLYPH_WIDTH, (i - 1) \div GLYPH_WIDTH, 0) = \H00
        THEN U32(\HFF, 0) ELSE U32(\H00, 0)]

FontLoaded == font.width > 0

CellCount(f) == (f.width \div GLYPH_WIDTH) * (f.height \div GLYPH_HEIGHT)

\* The row-major number (from 0) of the cell the grid loops stand at.
CellAt(s) ==
    (s.font_grid_y \div GLYPH_HEIGHT) * (font.width \div GLYPH_WIDTH)
        + (s.font_grid_x \div GLYPH_WIDTH)

Extracted == pc = "done" /\ valid = "true" /\ FontLoaded

\* C1: with as many non-empty cells as non-whitespace code points in a
\* validated legend, main succeeds and the k-th Glyph holds the k-th
\* non-whitespace code point of the legend (with its bytes, NUL-terminated)
\* and the color-key expansion of the k-th non-empty cell in row-major order.
C1_Pairing ==
    (Extracted /\ Len(InkCells(font)) = Len(NonSpaceChars(text))) =>
        LET chars == NonSpaceChars(text)
            cells == InkCells(font)
        IN  /\ out.exit_code = 0
            /\ Len(table) = Len(chars)
            /\ font_char_count = Len(chars)
            /\ \A k \in 1 .. Len(table) :
                /\ table[k].char_code = chars[k].code
                /\ table[k].text = chars[k].bytes \o <<0>>
                /\ table[k].pixels = Expand(cells[k])
            /\ WellFormed(text) =>
                [k \in 1 .. Len(table) |-> table[k].char_code]
                    = SelectSeq(RefCodes(text), LAMBDA c : ~IsWhitespace(c))

C1_Witness ==
    /\ Extracted
    /\ out.exit_code = 0
    /\ text = <<\H09, \H0B, \H0A, \H0C, \HC2, \H85, \H0D>>
    /\ Len(table) = 2
    /\ table[1].char_code = \H0B
    /\ table[2].char_code = \H85
    /\ table[2].text = <<\HC2, \H85, 0>>
    /\ font.width = 2 * GLYPH_WIDTH
    /\ font.height = 2 * GLYPH_HEIGHT
    /\ font.bytes_per_color = 2
    /\ font.cells[1] = "blank"
    /\ font.cells[4] # "blank"

\* C2: when the counts differ main exits with 1 and prints no glyph at all;
\* more code points than non-empty cells gives the "more chars than glyphs"
\* error, more non-empty cells than code points the "more glyphs than chars"
\* error.
C2_Mismatch ==
    (Extracted /\ Len(InkCells(font)) # Len(NonSpaceChars(text))) =>
        /\ out.exit_code = 1
        /\ ~out.printed
        /\ out.dump = <<>>
        /\ Len(NonSpaceChars(text)) > Len(InkCells(font)) => out.error = MoreChars
        /\ Len(InkCells(font)) > Len(NonSpaceChars(text)) => out.error = MoreGlyphs

C2_Witness ==
    /\ Extracted
    /\ Len(NonSpaceChars(text)) = 2
    /\ Len(InkCells(font)) = 1
    /\ Len(table) = 1
    /\ out.error = MoreChars
    /\ out.exit_code = 1

\* C9: the "more glyphs than chars" failure happens at the first non-empty
\* cell met with the glyph array full: no later cell has been examined and the
\* legend cursor stands where the last glyph written left it.  The "more chars
\* than glyphs" failure happens only once every cell has been examined.
C9_Ordering ==
    /\ out.error = MoreGlyphs =>
        /\ CellAt(scan) < CellCount(font)
        /\ PatternHasInk(font.cells[CellAt(scan) + 1])
        /\ scan.examined = CellAt(scan) + 1
        /\ Len(table) = font_char_count
        /\ Len(InkCells([font EXCEPT !.cells = SubSeq(font.cells, 1, CellAt(scan))]))
            = font_char_count
        /\ font_char_iter.data
            = OffsetAfter(LegendChars(text, WholeView(text)), font_char_count)
    /\ out.error = MoreChars =>
        /\ scan.examined = CellCount(font)
        /\ CellAt(scan) = CellCount(font)
    /\ pc \in {"scan", "scanned"} => out.error = ""

C9_Witness ==
    /\ out.error = MoreGlyphs
    /\ font_char_count = 1
    /\ Len(table) = 1
    /\ scan.examined = 2
    /\ CellCount(font) = 4
    /\ font_char_iter.size > 0

\* C10: for a legend utf8_validate accepted, no utf8_chop_char call of the
\* pre-scan or of the extraction pass reads outside the legend span or runs
\* on an empty span, the cursor's size never goes below zero, and during the
\* extraction pass the non-whitespace code points consumed are as many as the
\* Glyph records written.
C10_CursorSafety ==
    valid = "true" =>
        /\ ~ub
        /\ font_char_iter.size >= 0
        /\ FontLoaded =>
            /\ font_char_iter.data + font_char_iter.size = font_chars.size
            /\ Len(NonSpaceChars(SubSeq(text, 1, font_char_iter.data))) = Len(table)
            /\ Len(table) <= font_char_count

C10_Witness ==
    /\ valid = "true"
    /\ pc = "scan"
    /\ text = <<\H20, \H41, \H20>>
    /\ Len(table) = 1
    /\ font_char_iter = [data |-> 2, size |-> 1]

====
